---- MODULE Spec2Model ----
(***************************************************************************)
(* punch-card: a command-line punch clock.  One invocation of the binary   *)
(* (main, src/src/main.rs) reads the clock, loads today's Day Record from  *)
(* the Day Store, runs one command on it and (sometimes) writes the Day    *)
(* Record and the Ledger (Config) back.                                    *)
(*                                                                         *)
(* The command layer (main.rs) is modelled from the source.  The modules   *)
(* units::day and utils::config are part of the repository but not among   *)
(* its available sources; Day, Config and the two stores are modelled from *)
(* spec.md sections 3, 4 and 6.                                            *)
(*                                                                         *)
(* Option<T> is modelled as a sequence: <<>> is None, <<x>> is Some(x).    *)
(* Timestamps are seconds since midnight of the current date.              *)
(***************************************************************************)
EXTENDS Integers, Sequences, FiniteSets, TLC

VARIABLES
    now,        \* the Clock: the last timestamp handed to a command
    ticks,      \* how many times the clock has advanced (bounded by MaxTicks)
    dayStore,   \* Day Store: Option<Day> persisted for today's date
    cfgStore,   \* Ledger Store: the persisted Config
    day,        \* Option<Day>: the in-memory Day the last command ended with
    config,     \* Option<Config>: the in-memory Config the last command ended with
    cmd,        \* name of the last command that ran ("" before the first)
    result,     \* outcome of the state-machine call the last command made
    panicked,   \* TRUE when the last command ended in a panic
    report,     \* Option: the figures summarise_time printed in the last command
    closings,   \* history: the time left of each day whose closing stored the Ledger
    behind0     \* history: minutes_behind stored before the first command

vars == <<now, ticks, dayStore, cfgStore, day, config, cmd, result, panicked, report, closings, behind0>>

(*************************** bounds ****************************************)
MaxTicks == 2          \* clock advances in a behaviour of Spec
MaxBlocks == 3         \* work and break intervals of a Day Record
MaxEntries == 1        \* notes and summary entries of a Day Record
MaxLongTicks == 3      \* clock advances in a behaviour of SpecAccounting
MaxClosedDays == 3     \* days closed in a behaviour of SpecLedger

\* clock advances between two invocations, in seconds: none, half a minute,
\* four and a half hours
Steps == {0, 30, 16200}
\* the advances of SpecAccounting add half an hour and three hours
LongSteps == {0, 30, 1800, 10800, 16200}
\* the advances of SpecLedger: 7 h 45 min and 8 h 20 min of work
LedgerSteps == {0, 27900, 30000}
\* first clock reading of the day, 09:00:00
StartTimes == {32400}
\* minutes_behind values found in the Ledger Store at the start of the day
InitBehind == {0}

None == <<>>
Some(x) == <<x>>
IsSome(o) == o # <<>>
Unwrap(o) == o[1]

(*************************** Day (units::day) ******************************)
\* Config::day_in_minutes(): the daily target of the default config
DayInMinutes == 480
DefaultPunchInTask == "work"

Last(s) == s[Len(s)]
SetLast(s, x) == [s EXCEPT ![Len(s)] = x]

\* Day::new with the first work interval already closed at the punch-in time
DayNewClosed(t, task, target) ==
    [work |-> <<[start |-> t, end |-> Some(t)]>>,
     breaks |-> <<>>,
     end_time |-> None,
     target |-> target,
     notes |-> <<>>,
     summaries |-> <<>>]

\* Day::new(now, task, target): Working, one open work interval starting now.
\* The Day Record of spec.md section 3 has no field for the punch-in task.
DayNew(t, task, target) ==
    [work |-> <<[start |-> t, end |-> None]>>,
     breaks |-> <<>>,
     end_time |-> None,
     target |-> target,
     notes |-> <<>>,
     summaries |-> <<>>]

\* Day::has_ended
HasEnded(d) == IsSome(d.end_time)

LastOpen(s) == Len(s) > 0 /\ ~IsSome(Last(s).end)

\* The state of spec.md section 4.1, inferred as the original does from the
\* end timestamp and the open/closed status of the last interval of each list.
DayState(d) ==
    IF HasEnded(d) THEN "Ended"
    ELSE IF LastOpen(d.breaks) THEN "OnBreak"
    ELSE "Working"

Ok(d) == [ok |-> TRUE, err |-> "", day |-> d]
Err(e, d) == [ok |-> FALSE, err |-> e, day |-> d]

CloseLast(s, t) == SetLast(s, [Last(s) EXCEPT !.end = Some(t)])
OpenNew(s, t) == Append(s, [start |-> t, end |-> None])

\* start_break_at opening the break where the work interval began
StartBreakAtWorkStart(d, t) ==
    IF HasEnded(d) THEN Err("AlreadyEnded", d)
    ELSE IF DayState(d) # "Working" THEN Err("InvalidTransition", d)
    ELSE Ok([d EXCEPT !.work = CloseLast(d.work, t),
                      !.breaks = OpenNew(d.breaks, Last(d.work).start)])

\* Day::start_break_at (startBreak)
StartBreakAt(d, t) ==
    IF HasEnded(d) THEN Err("AlreadyEnded", d)
    ELSE IF DayState(d) # "Working" THEN Err("InvalidTransition", d)
    ELSE IF t < Last(d.work).start THEN Err("InvalidTransition", d)
    ELSE Ok([d EXCEPT !.work = CloseLast(d.work, t), !.breaks = OpenNew(d.breaks, t)])

\* end_current_block_at reopening work at the start of the last work interval
EndCurrentBlockAtWorkStart(d, t) ==
    IF HasEnded(d) THEN Err("AlreadyEnded", d)
    ELSE IF DayState(d) # "OnBreak" THEN Err("InvalidTransition", d)
    ELSE Ok([d EXCEPT !.breaks = CloseLast(d.breaks, t),
                      !.work = OpenNew(d.work, Last(d.work).start)])

\* Day::end_current_block_at (endCurrentBlock, resume)
EndCurrentBlockAt(d, t) ==
    IF HasEnded(d) THEN Err("AlreadyEnded", d)
    ELSE IF DayState(d) # "OnBreak" THEN Err("InvalidTransition", d)
    ELSE IF t < Last(d.breaks).start THEN Err("InvalidTransition", d)
    ELSE Ok([d EXCEPT !.breaks = CloseLast(d.breaks, t), !.work = OpenNew(d.work, t)])

\* Day::end_day_at (endDay)
EndDayAt(d, t) ==
    IF HasEnded(d) THEN Err("AlreadyEnded", d)
    ELSE IF DayState(d) = "OnBreak"
         THEN Ok([d EXCEPT !.breaks = CloseLast(d.breaks, t), !.end_time = Some(t)])
         ELSE Ok([d EXCEPT !.work = CloseLast(d.work, t), !.end_time = Some(t)])

\* Day::add_note, Day::add_summary: legal in every state, append only
AddNote(d, t, msg) == [d EXCEPT !.notes = Append(d.notes, [timestamp |-> t, message |-> msg])]
AddSummary(d, category, project, task, summary) ==
    [d EXCEPT !.summaries = Append(d.summaries,
        [category |-> category, project |-> project, task |-> task, description |-> summary])]

(*************************** time accounting *******************************)
RECURSIVE SumSeconds(_)
\* sum over closed intervals of (end - start), in seconds
SumSeconds(s) ==
    IF s = <<>> THEN 0
    ELSE (Unwrap(s[1].end) - s[1].start) + SumSeconds(Tail(s))

Val(v) == [ok |-> TRUE, err |-> "", val |-> v]
NoVal(e) == [ok |-> FALSE, err |-> e, val |-> 0]

\* totalWorkMinutes = timeDoneMinutes: truncated to minutes at summation
GetTimeDone(d) ==
    IF HasEnded(d) THEN Val(SumSeconds(d.work) \div 60) ELSE NoVal("DayNotEnded")

\* totalBreakMinutes
GetTotalBreakTime(d) ==
    IF HasEnded(d) THEN Val(SumSeconds(d.breaks) \div 60) ELSE NoVal("DayNotEnded")

\* get_time_left without the has_ended check
GetTimeLeftUnchecked(d) == Val(d.target - GetTimeDone(d).val)

\* timeLeftMinutes = target_minutes - timeDoneMinutes
GetTimeLeft(d) ==
    IF HasEnded(d) THEN Val(d.target - GetTimeDone(d).val) ELSE NoVal("DayNotEnded")

(*************************** Config (utils::config) ************************)
\* Config::update_minutes_behind
UpdateMinutesBehind(c, x) == [c EXCEPT !.minutes_behind = c.minutes_behind + x]
MinutesBehind(c) == c.minutes_behind
MinutesBehindNonNeg(c) == IF c.minutes_behind > 0 THEN c.minutes_behind ELSE 0

\* the Config record: the daily target, the default start task, the counter
ConfigOf(mb) ==
    [day_in_minutes |-> DayInMinutes,
     default_punch_in_task |-> DefaultPunchInTask,
     minutes_behind |-> mb]

(*************************** command layer (main.rs) ***********************)
\* What one invocation leaves behind: the two stores, the in-memory Day and
\* Config it ended with, the Result of its state-machine call, and whether
\* it panicked.
Outcome(ds, cs, d, c, r, p) ==
    [dayStore |-> ds, cfgStore |-> cs, day |-> d, config |-> c, result |-> r,
     panicked |-> p, report |-> None, closed |-> None]

\* the same, for a command that went through summarise_time
Summarised(o, s) == [o EXCEPT !.panicked = s.panicked, !.report = s.report]

\* SubCommand::from_string; names are the already trimmed argv[1]
from_string(name, other_args) ==
    IF name \in {"in", "out", "pause", "resume", "summary", "view", "edit", "note",
                 "edit-config", "view-config", "add-summary"}
    THEN [kind |-> name, args |-> other_args]
    ELSE [kind |-> "Invalid", args |-> <<name>>]

\* SubCommand::get_allowed_strings
get_allowed_strings ==
    <<"in", "out", "pause", "resume", "summary", "view", "edit", "note", "edit-config",
      "add-summary">>

\* get_other_args_for_punch_in: (task, target) from the config and the arguments
get_other_args_for_punch_in(other_args, cs) ==
    <<IF Len(other_args) = 0 THEN cs.default_punch_in_task ELSE other_args[1],
      cs.day_in_minutes>>

\* punch_in without the read_day check: a second `in` starts the day over
punch_in_overwrite(t, other_args, ds, cs) ==
    LET parsed_args == get_other_args_for_punch_in(other_args, cs)
        new_day == DayNew(t, parsed_args[1], parsed_args[2])
    IN Outcome(Some(new_day), cs, Some(new_day), None, "Ok", FALSE)

\* punch_in refusing only while the stored day is open
punch_in_after_end(t, other_args, ds, cs) ==
    IF IsSome(ds) /\ ~HasEnded(Unwrap(ds))
    THEN Outcome(ds, cs, None, None, "AlreadyClockedIn", FALSE)
    ELSE LET parsed_args == get_other_args_for_punch_in(other_args, cs)
             new_day == DayNew(t, parsed_args[1], parsed_args[2])
         IN Outcome(Some(new_day), cs, Some(new_day), None, "Ok", FALSE)

\* punch_in: refuses when a Day Record is stored for today, else creates and stores one
punch_in(t, other_args, ds, cs) ==
    IF IsSome(ds)
    THEN Outcome(ds, cs, None, None, "AlreadyClockedIn", FALSE)
    ELSE LET parsed_args == get_other_args_for_punch_in(other_args, cs)
             new_day == DayNew(t, parsed_args[1], parsed_args[2])
         IN Outcome(Some(new_day), cs, Some(new_day), None, "Ok", FALSE)

\* summarise_time reporting the time left as the time done
summarise_time_left_as_done(d, c) ==
    LET time_left == GetTimeLeft(d)
        break_time == GetTotalBreakTime(d)
    IN IF ~time_left.ok \/ ~break_time.ok \/ ~GetTimeDone(d).ok
       THEN [panicked |-> TRUE, config |-> c, report |-> None]
       ELSE LET updated == UpdateMinutesBehind(c, time_left.val)
            IN [panicked |-> FALSE,
                config |-> updated,
                report |-> Some([time_done |-> time_left.val,
                                 break_time |-> break_time.val,
                                 time_left |-> time_left.val,
                                 minutes_behind |-> MinutesBehind(updated),
                                 minutes_behind_non_neg |-> MinutesBehindNonNeg(updated)])]

\* summarise_time with the time done and the break time swapped
summarise_time_swapped(d, c) ==
    LET time_left == GetTimeLeft(d)
        break_time == GetTotalBreakTime(d)
    IN IF ~time_left.ok \/ ~break_time.ok \/ ~GetTimeDone(d).ok
       THEN [panicked |-> TRUE, config |-> c, report |-> None]
       ELSE LET updated == UpdateMinutesBehind(c, time_left.val)
            IN [panicked |-> FALSE,
                config |-> updated,
                report |-> Some([time_done |-> break_time.val,
                                 break_time |-> GetTimeDone(d).val,
                                 time_left |-> time_left.val,
                                 minutes_behind |-> MinutesBehind(updated),
                                 minutes_behind_non_neg |-> MinutesBehindNonNeg(updated)])]

\* summarise_time handing the break time to update_minutes_behind
summarise_time_adds_break(d, c) ==
    LET time_left == GetTimeLeft(d)
        break_time == GetTotalBreakTime(d)
    IN IF ~time_left.ok \/ ~break_time.ok \/ ~GetTimeDone(d).ok
       THEN [panicked |-> TRUE, config |-> c, report |-> None]
       ELSE LET updated == UpdateMinutesBehind(c, break_time.val)
            IN [panicked |-> FALSE,
                config |-> updated,
                report |-> Some([time_done |-> GetTimeDone(d).val,
                                 break_time |-> break_time.val,
                                 time_left |-> time_left.val,
                                 minutes_behind |-> MinutesBehind(updated),
                                 minutes_behind_non_neg |-> MinutesBehindNonNeg(updated)])]

\* summarise_time printing minutes_behind() on both of its last two lines
summarise_time_raw_twice(d, c) ==
    LET time_left == GetTimeLeft(d)
        break_time == GetTotalBreakTime(d)
    IN IF ~time_left.ok \/ ~break_time.ok \/ ~GetTimeDone(d).ok
       THEN [panicked |-> TRUE, config |-> c, report |-> None]
       ELSE LET updated == UpdateMinutesBehind(c, time_left.val)
            IN [panicked |-> FALSE,
                config |-> updated,
                report |-> Some([time_done |-> GetTimeDone(d).val,
                                 break_time |-> break_time.val,
                                 time_left |-> time_left.val,
                                 minutes_behind |-> MinutesBehind(updated),
                                 minutes_behind_non_neg |-> MinutesBehind(updated)])]

\* summarise_time: the expects panic on a Day that has not ended; otherwise the
\* in-memory config receives the day's time left (and the figures are printed)
summarise_time(d, c) ==
    LET time_left == GetTimeLeft(d)
        break_time == GetTotalBreakTime(d)
    IN IF ~time_left.ok \/ ~break_time.ok \/ ~GetTimeDone(d).ok
       THEN [panicked |-> TRUE, config |-> c, report |-> None]
       ELSE LET updated == UpdateMinutesBehind(c, time_left.val)
            IN [panicked |-> FALSE,
                config |-> updated,
                report |-> Some([time_done |-> GetTimeDone(d).val,
                                 break_time |-> break_time.val,
                                 time_left |-> time_left.val,
                                 minutes_behind |-> MinutesBehind(updated),
                                 minutes_behind_non_neg |-> MinutesBehindNonNeg(updated)])]

\* update_time_behind: loads the config, summarises, stores the config
update_time_behind(d, ds, cs) ==
    IF HasEnded(d)
    THEN LET s == summarise_time(d, cs)
         IN IF s.panicked
            THEN Summarised(Outcome(ds, cs, Some(d), Some(s.config), "Ok", TRUE), s)
            ELSE [Summarised(Outcome(ds, s.config, Some(d), Some(s.config), "Ok", FALSE), s)
                     EXCEPT !.closed = Some(GetTimeLeft(d).val)]
    ELSE Outcome(ds, cs, Some(d), None, "Ok", TRUE)

\* punch_out dropping the Result of end_day_at, as summary does
punch_out_unchecked(t, d, ds, cs) ==
    LET r == EndDayAt(d, t)
    IN update_time_behind(r.day, Some(r.day), cs)

\* punch_out: ends the day, prints its end (the unwrap of get_day_end_as_str
\* panics on a day without end_time), stores it, then updates the Ledger
punch_out(t, d, ds, cs) ==
    LET r == EndDayAt(d, t)
    IN IF r.ok
       THEN IF ~IsSome(r.day.end_time)
            THEN Outcome(ds, cs, Some(r.day), None, "Ok", TRUE)
            ELSE update_time_behind(r.day, Some(r.day), cs)
       ELSE Outcome(ds, cs, Some(r.day), None, r.err, FALSE)

\* the tail of take_break and resume with write_day moved after end_day_at
AfterBlockChangeWritingLast(t, d, cs) ==
    LET e == IF ~HasEnded(d) THEN EndDayAt(d, t) ELSE Ok(d)
    IN IF ~e.ok
       THEN Outcome(Some(d), cs, Some(d), None, "Ok", TRUE)
       ELSE LET s == summarise_time(e.day, cs)
            IN Summarised(Outcome(Some(e.day), cs, Some(e.day), Some(s.config), "Ok", FALSE), s)

\* the tail shared by take_break and resume: after write_day the in-memory Day
\* is ended when it has not ended, and summarised into an in-memory config
\* that is not stored
AfterBlockChange(t, d, cs) ==
    LET e == IF ~HasEnded(d) THEN EndDayAt(d, t) ELSE Ok(d)
    IN IF ~e.ok
       THEN Outcome(Some(d), cs, Some(d), None, "Ok", TRUE)
       ELSE LET s == summarise_time(e.day, cs)
            IN Summarised(Outcome(Some(d), cs, Some(e.day), Some(s.config), "Ok", FALSE), s)

\* take_break calling end_current_block_at, the call of its twin resume
take_break_as_resume(t, d, ds, cs) ==
    LET break_result == EndCurrentBlockAt(d, t)
    IN IF break_result.ok
       THEN AfterBlockChange(t, break_result.day, cs)
       ELSE Outcome(ds, cs, Some(break_result.day), None, break_result.err, FALSE)

\* take_break
take_break(t, d, ds, cs) ==
    LET break_result == StartBreakAt(d, t)
    IN IF break_result.ok
       THEN AfterBlockChange(t, break_result.day, cs)
       ELSE Outcome(ds, cs, Some(break_result.day), None, break_result.err, FALSE)

\* resume
resume(t, d, ds, cs) ==
    LET resume_result == EndCurrentBlockAt(d, t)
    IN IF resume_result.ok
       THEN AfterBlockChange(t, resume_result.day, cs)
       ELSE Outcome(ds, cs, Some(resume_result.day), None, resume_result.err, FALSE)

\* summary without its call of end_day_at
summary_without_end(t, d, ds, cs) ==
    LET s == summarise_time(d, cs)
    IN Summarised(Outcome(ds, cs, Some(d), Some(s.config), "Ok", FALSE), s)

\* summary: ends the in-memory day (the Result is dropped), summarises into an
\* in-memory config; neither is stored
summary(t, d, ds, cs) ==
    LET end_result == EndDayAt(d, t)
        s == summarise_time(end_result.day, cs)
    IN Summarised(Outcome(ds, cs, Some(end_result.day), Some(s.config),
                          IF end_result.ok THEN "Ok" ELSE end_result.err, FALSE), s)

\* view_day
view_day(d, ds, cs) == Outcome(ds, cs, Some(d), None, "Ok", FALSE)

\* view_config
view_config(d, ds, cs) == Outcome(ds, cs, Some(d), Some(cs), "Ok", FALSE)

\* add_note_to_today
add_note_to_today(t, d, other_args, ds, cs) ==
    IF Len(other_args) = 0 \/ Len(other_args) > 1
    THEN Outcome(ds, cs, Some(d), None, "BadArgs", FALSE)
    ELSE LET noted == AddNote(d, t, other_args[1])
         IN Outcome(Some(noted), cs, Some(noted), None, "Ok", FALSE)

\* add_summary_to_today without its write_day
add_summary_to_today_unsaved(d, other_args, ds, cs) ==
    IF Len(other_args) # 4
    THEN Outcome(ds, cs, Some(d), None, "BadArgs", FALSE)
    ELSE LET summed == AddSummary(d, other_args[1], other_args[2], other_args[3], other_args[4])
         IN Outcome(ds, cs, Some(summed), None, "Ok", FALSE)

\* add_summary_to_today
add_summary_to_today(d, other_args, ds, cs) ==
    IF Len(other_args) # 4
    THEN Outcome(ds, cs, Some(d), None, "BadArgs", FALSE)
    ELSE LET summed == AddSummary(d, other_args[1], other_args[2], other_args[3], other_args[4])
         IN Outcome(Some(summed), cs, Some(summed), None, "Ok", FALSE)

\* handle_invalid_cmd: prints the allowed subcommands
handle_invalid_cmd(ds, cs) == Outcome(ds, cs, None, None, "InvalidCommand", FALSE)

\* run_command punching in when get_current_day finds no Day Record
run_command_auto_in(command, t, ds, cs) ==
    IF command.kind = "in" THEN punch_in(t, command.args, ds, cs)
    ELSE IF command.kind = "Invalid" THEN handle_invalid_cmd(ds, cs)
    ELSE IF ~IsSome(ds) THEN punch_in(t, <<>>, ds, cs)
    ELSE LET d == Unwrap(ds)
         IN CASE command.kind = "out" -> punch_out(t, d, ds, cs)
              [] command.kind = "pause" -> take_break(t, d, ds, cs)
              [] command.kind = "resume" -> resume(t, d, ds, cs)
              [] command.kind = "summary" -> summary(t, d, ds, cs)
              [] command.kind = "view" -> view_day(d, ds, cs)
              [] command.kind = "view-config" -> view_config(d, ds, cs)
              [] command.kind = "note" -> add_note_to_today(t, d, command.args, ds, cs)
              [] command.kind = "add-summary" -> add_summary_to_today(d, command.args, ds, cs)
              [] OTHER -> Outcome(ds, cs, Some(d), None, "Ok", FALSE)

\* run_command.  get_current_day fails when no Day Record is stored for today.
\* edit and edit-config hand the stored file to an interactive editor and are
\* not part of the state machine; the unreachable! arms panic.
run_command(command, t, ds, cs) ==
    IF command.kind = "in" THEN punch_in(t, command.args, ds, cs)
    ELSE IF command.kind = "Invalid" THEN handle_invalid_cmd(ds, cs)
    ELSE IF ~IsSome(ds) THEN Outcome(ds, cs, None, None, "NotFound", FALSE)
    ELSE LET d == Unwrap(ds)
         IN CASE command.kind = "out" -> punch_out(t, d, ds, cs)
              [] command.kind = "pause" -> take_break(t, d, ds, cs)
              [] command.kind = "resume" -> resume(t, d, ds, cs)
              [] command.kind = "summary" -> summary(t, d, ds, cs)
              [] command.kind = "view" -> view_day(d, ds, cs)
              [] command.kind = "view-config" -> view_config(d, ds, cs)
              [] command.kind = "note" -> add_note_to_today(t, d, command.args, ds, cs)
              [] command.kind = "add-summary" -> add_summary_to_today(d, command.args, ds, cs)
              [] command.kind \in {"in", "Invalid"} -> Outcome(ds, cs, Some(d), None, "Ok", TRUE)
              [] OTHER -> Outcome(ds, cs, Some(d), None, "Ok", FALSE)

(*************************** the state machine *****************************)
InArgs == {<<>>, <<"task">>}
NoteArgs == {<<>>, <<"msg">>, <<"two", "words">>}
SummaryArgs == {<<>>, <<"cat", "proj", "task", "text">>}

WithinBounds(ds) ==
    IsSome(ds) =>
        /\ Len(Unwrap(ds).work) + Len(Unwrap(ds).breaks) <= MaxBlocks
        /\ Len(Unwrap(ds).notes) + Len(Unwrap(ds).summaries) <= MaxEntries

Init ==
    /\ now \in StartTimes
    /\ ticks = 0
    /\ dayStore = None
    /\ behind0 \in InitBehind
    /\ cfgStore = ConfigOf(behind0)
    /\ day = None
    /\ config = None
    /\ cmd = ""
    /\ result = ""
    /\ panicked = FALSE
    /\ report = None
    /\ closings = <<>>

\* main: one invocation: parse the command, read the clock, run the command.
\* The clock has advanced by step since the last invocation; max_ticks bounds
\* the number of advances.  Each action below records the command it ran in cmd.
Main(name, other_args, step, max_ticks) ==
    /\ step > 0 => ticks < max_ticks
    /\ LET t == now + step
           o == run_command(from_string(name, other_args), t, dayStore, cfgStore)
       IN /\ WithinBounds(o.dayStore)
          /\ now' = t
          /\ ticks' = IF step > 0 THEN ticks + 1 ELSE ticks
          /\ dayStore' = o.dayStore
          /\ cfgStore' = o.cfgStore
          /\ day' = o.day
          /\ config' = o.config
          /\ result' = o.result
          /\ panicked' = o.panicked
          /\ report' = o.report
          /\ closings' = closings \o o.closed
          /\ UNCHANGED behind0

In ==
    \E step \in Steps, a \in InArgs :
        /\ cmd' = "in"
        /\ Main("in", a, step, MaxTicks)
Out ==
    \E step \in Steps :
        /\ cmd' = "out"
        /\ Main("out", <<>>, step, MaxTicks)
Pause ==
    \E step \in Steps :
        /\ cmd' = "pause"
        /\ Main("pause", <<>>, step, MaxTicks)
Resume ==
    \E step \in Steps :
        /\ cmd' = "resume"
        /\ Main("resume", <<>>, step, MaxTicks)
SummaryCmd ==
    \E step \in Steps :
        /\ cmd' = "summary"
        /\ Main("summary", <<>>, step, MaxTicks)
View ==
    \E step \in Steps :
        /\ cmd' = "view"
        /\ Main("view", <<>>, step, MaxTicks)
ViewConfig ==
    \E step \in Steps :
        /\ cmd' = "view-config"
        /\ Main("view-config", <<>>, step, MaxTicks)
Note ==
    \E step \in Steps, a \in NoteArgs :
        /\ cmd' = "note"
        /\ Main("note", a, step, MaxTicks)
AddSummaryCmd ==
    \E step \in Steps, a \in SummaryArgs :
        /\ cmd' = "add-summary"
        /\ Main("add-summary", a, step, MaxTicks)
InvalidCmd ==
    \E step \in Steps :
        /\ cmd' = "start"
        /\ Main("start", <<>>, step, MaxTicks)

Next ==
    \/ In
    \/ Out
    \/ Pause
    \/ Resume
    \/ SummaryCmd
    \/ View
    \/ ViewConfig
    \/ Note
    \/ AddSummaryCmd
    \/ InvalidCmd

Spec == Init /\ [][Next]_vars

\* The commands that open, toggle and close a day, over a working day's worth
\* of clock advances: the behaviours the time accounting is checked on.
LongIn ==
    \E step \in LongSteps :
        /\ cmd' = "in"
        /\ Main("in", <<>>, step, MaxLongTicks)
LongOut ==
    \E step \in LongSteps :
        /\ cmd' = "out"
        /\ Main("out", <<>>, step, MaxLongTicks)
LongPause ==
    \E step \in LongSteps :
        /\ cmd' = "pause"
        /\ Main("pause", <<>>, step, MaxLongTicks)
LongResume ==
    \E step \in LongSteps :
        /\ cmd' = "resume"
        /\ Main("resume", <<>>, step, MaxLongTicks)
LongSummary ==
    \E step \in LongSteps :
        /\ cmd' = "summary"
        /\ Main("summary", <<>>, step, MaxLongTicks)

NextAccounting ==
    \/ LongIn
    \/ LongOut
    \/ LongPause
    \/ LongResume
    \/ LongSummary

SpecAccounting == Init /\ [][NextAccounting]_vars

\* The Ledger over consecutive dates.  The Day Store is keyed by the calendar
\* date: once the date has changed no Day Record is found for today, and the
\* records of earlier dates are not read again.  The Ledger Store is kept.
EndOfDay == 24 * 3600

NextDate ==
    /\ IsSome(dayStore)
    /\ Len(closings) < MaxClosedDays
    /\ now' \in StartTimes
    /\ ticks' = 0
    /\ dayStore' = None
    /\ day' = None
    /\ config' = None
    /\ cmd' = ""
    /\ result' = ""
    /\ panicked' = FALSE
    /\ report' = None
    /\ UNCHANGED <<cfgStore, closings, behind0>>

LedgerIn ==
    \E step \in LedgerSteps :
        /\ now + step < EndOfDay
        /\ cmd' = "in"
        /\ Main("in", <<>>, step, MaxLongTicks)
LedgerOut ==
    \E step \in LedgerSteps :
        /\ now + step < EndOfDay
        /\ cmd' = "out"
        /\ Main("out", <<>>, step, MaxLongTicks)

NextLedger ==
    \/ LedgerIn
    \/ LedgerOut
    \/ NextDate

SpecLedger == Init /\ [][NextLedger]_vars

(*************************** properties ************************************)
Stored == Unwrap(dayStore)
StoredOpen == IsSome(dayStore) /\ ~HasEnded(Stored)
StoredEnded == IsSome(dayStore) /\ HasEnded(Stored)
StoresUnchanged == dayStore' = dayStore /\ cfgStore' = cfgStore

\* the Day Records the program holds: the stored one and the in-memory one
Days == {d \in {dayStore, day} : IsSome(d)}

\* C1: on a stored Day Record that has not ended, `pause` succeeds exactly in
\* state Working and `resume` exactly in state OnBreak; the other two
\* combinations fail with InvalidTransition and leave the stored Day Record
\* and the stored Ledger as they were.
C1_ToggleGuards ==
    [][StoredOpen =>
        /\ cmd' = "pause" =>
              IF DayState(Stored) = "Working"
              THEN result' = "Ok" /\ DayState(Unwrap(dayStore')) = "OnBreak"
              ELSE result' = "InvalidTransition" /\ StoresUnchanged
        /\ cmd' = "resume" =>
              IF DayState(Stored) = "OnBreak"
              THEN result' = "Ok" /\ DayState(Unwrap(dayStore')) = "Working"
              ELSE result' = "InvalidTransition" /\ StoresUnchanged]_vars

\* C1 witness: a `pause` was refused on a day that is on a break
C1_Witness ==
    /\ cmd = "pause"
    /\ result = "InvalidTransition"
    /\ StoredOpen
    /\ DayState(Stored) = "OnBreak"

\* C2: on a stored Day Record that has ended, startBreak (`pause`),
\* endCurrentBlock (`resume`) and endDay (`out`, `summary`) fail with
\* AlreadyEnded and change neither the stored Day Record nor the stored Ledger.
C2_EndedRefuses ==
    [][(StoredEnded /\ cmd' \in {"pause", "resume", "out", "summary"}) =>
        (result' = "AlreadyEnded" /\ StoresUnchanged)]_vars

\* C2 witness: a second `out` was refused after the Ledger took the day's time left
C2_Witness ==
    /\ cmd = "out"
    /\ result = "AlreadyEnded"
    /\ StoredEnded
    /\ cfgStore.minutes_behind # behind0

\* C3: once the stored Day Record has end_time set, no command clears or
\* changes it (so the state never returns to Working or OnBreak).
C3_ClosingIsTerminal ==
    [][StoredEnded =>
        /\ IsSome(dayStore')
        /\ Unwrap(dayStore').end_time = Stored.end_time
        /\ DayState(Unwrap(dayStore')) = "Ended"]_vars

\* C3 witness: a note was stored after the day's end
C3_Witness ==
    /\ StoredEnded
    /\ cmd = "note"
    /\ result = "Ok"
    /\ Len(Stored.notes) > 0
    /\ Last(Stored.notes).timestamp > Unwrap(Stored.end_time)

OpenCount(s) == Cardinality({i \in 1..Len(s) : ~IsSome(s[i].end)})

\* the interval that is, or was until the day ended, the current one: intervals
\* alternate from work, so with as many breaks as work intervals it is a break
CurrentBlock(d) == IF Len(d.breaks) = Len(d.work) THEN Last(d.breaks) ELSE Last(d.work)

WellFormed(d) ==
    IF ~HasEnded(d)
    THEN /\ OpenCount(d.work) + OpenCount(d.breaks) = 1
         /\ LastOpen(d.work) # LastOpen(d.breaks)
         /\ DayState(d) = "Working" <=> LastOpen(d.work)
         /\ DayState(d) = "OnBreak" <=> LastOpen(d.breaks)
    ELSE /\ OpenCount(d.work) + OpenCount(d.breaks) = 0
         /\ CurrentBlock(d).end = d.end_time

\* C4: in every Day Record the program holds, stored or in memory: while
\* end_time is None exactly one interval is open, and it is the last work
\* interval (Working) or the last break interval (OnBreak); once end_time is
\* set no interval is open and the one that was open ends at end_time.
C4_OneOpenInterval == \A d \in Days : WellFormed(Unwrap(d))

\* C4 witness: a day that was ended while on a break is stored
C4_Witness ==
    /\ StoredEnded
    /\ Len(Stored.breaks) = Len(Stored.work)
    /\ Unwrap(Last(Stored.breaks).end) > Last(Stored.breaks).start

\* two intervals overlap when they share more than an endpoint; an open
\* interval extends without end
EndsAfter(i, t) == IsSome(i.end) => Unwrap(i.end) > t
Overlap(a, b) == EndsAfter(a, b.start) /\ EndsAfter(b, a.start)

Disjoint(d) ==
    \A i \in 1..Len(d.work), j \in 1..Len(d.breaks) : ~Overlap(d.work[i], d.breaks[j])

Chained(d) ==
    /\ \A j \in 1..Len(d.breaks) : Some(d.breaks[j].start) = d.work[j].end
    /\ \A i \in 2..Len(d.work) : Some(d.work[i].start) = d.breaks[i - 1].end

\* C5: in every Day Record the program holds, no work interval overlaps a
\* break interval: each break starts exactly where the work interval before it
\* ends, and each resumed work interval starts exactly where the break before
\* it ends.
C5_NoOverlap == \A d \in Days : Disjoint(Unwrap(d)) /\ Chained(Unwrap(d))

\* C5 witness: work, a break and resumed work, each of them lasting, are stored
C5_Witness ==
    /\ IsSome(dayStore)
    /\ Len(Stored.work) = 2
    /\ Len(Stored.breaks) = 1
    /\ Stored.work[1].start < Stored.breaks[1].start
    /\ Stored.breaks[1].start < Stored.work[2].start
    /\ HasEnded(Stored)
    /\ Unwrap(Stored.end_time) >= Stored.work[2].start

\* the Day the last command summarised, and the figures it printed
Reported == Unwrap(report)
Summed == Unwrap(day)
\* seconds from punch-in to the end of the day
ElapsedSeconds(d) == Unwrap(d.end_time) - d.work[1].start

RECURSIVE DurationUpTo(_, _)
\* the durations of the first n intervals of s, in seconds
DurationUpTo(s, n) ==
    IF n = 0 THEN 0 ELSE DurationUpTo(s, n - 1) + (Unwrap(s[n].end) - s[n].start)
Duration(s) == DurationUpTo(s, Len(s))

ScenarioDay(d) ==
    /\ d.target = 480
    /\ d.work = <<[start |-> 32400, end |-> Some(43200)],
                 [start |-> 45000, end |-> Some(61200)]>>
    /\ d.breaks = <<[start |-> 43200, end |-> Some(45000)]>>
    /\ d.end_time = Some(61200)

\* C7: for every ended day the time done is the duration of the work intervals
\* alone, in whole minutes (the elapsed time less the breaks), the break time is
\* the duration of the break intervals, and the time left is target_minutes
\* less the time done, negative when the work exceeds the target; the 09:00 to
\* 17:00 day with target 480 and a break 12:00-12:30 gives 450, 30 and 30.
C7_TimeFigures ==
    IsSome(report) =>
        /\ Reported.time_done = Duration(Summed.work) \div 60
        /\ Reported.time_done = (ElapsedSeconds(Summed) - Duration(Summed.breaks)) \div 60
        /\ Reported.break_time = Duration(Summed.breaks) \div 60
        /\ Reported.time_left = Summed.target - Reported.time_done
        /\ Duration(Summed.work) >= (Summed.target + 1) * 60 => Reported.time_left < 0
        /\ ScenarioDay(Summed) =>
              /\ Reported.break_time = 30
              /\ Reported.time_done = 450
              /\ Reported.time_left = 30

\* C7 witness: `out` at 17:00 of the scenario day
C7_Witness ==
    /\ cmd = "out"
    /\ result = "Ok"
    /\ IsSome(report)
    /\ ScenarioDay(Summed)
    /\ dayStore = day

\* a day summarised with more work than its target
C7_Overtime == IsSome(report) /\ Reported.time_left < 0 /\ Len(Summed.breaks) > 0

\* C8: timeLeftMinutes, totalWorkMinutes and totalBreakMinutes fail with
\* DayNotEnded on every Day Record in state Working or OnBreak and succeed on
\* every Day Record in state Ended.
C8_DerivationsNeedEnd ==
    \A o \in Days :
        LET d == Unwrap(o)
            derived == {GetTimeLeft(d), GetTimeDone(d), GetTotalBreakTime(d)}
        IN IF DayState(d) = "Ended"
           THEN \A r \in derived : r.ok
           ELSE \A r \in derived : ~r.ok /\ r.err = "DayNotEnded"

\* C8 witness: after `pause` the stored day is on a break and the in-memory day ended
C8_Witness ==
    /\ cmd = "pause"
    /\ result = "Ok"
    /\ DayState(Stored) = "OnBreak"
    /\ DayState(Unwrap(day)) = "Ended"

\* C9: once `out` or `summary` has closed the day, the stored Ledger's
\* minutes_behind is the value it had before plus that day's timeLeftMinutes:
\* the contribution is neither missing nor added twice.
C9_LedgerUpdatedOncePerClosing ==
    (cmd \in {"out", "summary"} /\ IsSome(day) /\ HasEnded(Unwrap(day))) =>
        cfgStore.minutes_behind = behind0 + GetTimeLeft(Unwrap(day)).val

\* C10: when a command completes, the stored Day Record is the in-memory Day
\* Record it ended with and the stored Ledger is the in-memory Ledger it ended
\* with.
C10_MemoryIsPersisted ==
    /\ IsSome(day) => dayStore = day
    /\ IsSome(config) => cfgStore = Unwrap(config)

RECURSIVE SumOf(_)
SumOf(s) == IF s = <<>> THEN 0 ELSE s[1] + SumOf(Tail(s))

\* C11: the stored Ledger's minutes_behind is a signed running sum: it is the
\* value it started from plus the time left of every day closed since, and
\* can be negative; from 0, two days closing with -20 give -40 and a following
\* day closing with +15 gives -25.  Each summary adds the day's time left to
\* the counter it loaded.
C11_SignedRunningSum ==
    /\ cfgStore.minutes_behind = behind0 + SumOf(closings)
    /\ (behind0 = 0 /\ closings = <<-20, -20>>) => cfgStore.minutes_behind = -40
    /\ (behind0 = 0 /\ closings = <<-20, -20, 15>>) => cfgStore.minutes_behind = -25
    /\ (cmd = "out" /\ IsSome(report)) =>
          /\ Last(closings) = Reported.time_left
          /\ Reported.minutes_behind = cfgStore.minutes_behind

\* C11 witness: the third day closed with +15 after two days closed with -20
C11_Witness ==
    /\ behind0 = 0
    /\ closings = <<-20, -20, 15>>
    /\ cmd = "out"
    /\ cfgStore.minutes_behind = -25

\* max(0, x)
FlooredAtZero(x) == IF x <= 0 THEN 0 ELSE x

\* C12: in every Ledger the program holds, stored or in memory, the
\* non-negative view is max(0, minutes_behind): 0 when the counter is negative
\* or zero, the counter otherwise; the view summarise_time prints is that of
\* the counter it prints, and printing the two leaves the counter as updated.
C12_NonNegativeView ==
    /\ MinutesBehindNonNeg(cfgStore) = FlooredAtZero(cfgStore.minutes_behind)
    /\ IsSome(config) =>
          MinutesBehindNonNeg(Unwrap(config)) = FlooredAtZero(Unwrap(config).minutes_behind)
    /\ IsSome(report) =>
          /\ Reported.minutes_behind_non_neg = FlooredAtZero(Reported.minutes_behind)
          /\ Reported.minutes_behind = Unwrap(config).minutes_behind

\* C12 witness: the second day closed 20 minutes over: counter -40, view 0
C12_Witness ==
    /\ IsSome(report)
    /\ closings = <<-20, -20>>
    /\ Reported.minutes_behind = -40
    /\ Reported.minutes_behind_non_neg = 0

\* a Ledger that is behind: the view is the counter
C12_Behind == IsSome(report) /\ Reported.minutes_behind_non_neg > 0 /\ Len(closings) > 1

\* C13: `in` on a date that has a stored Day Record, whatever its state, is
\* rejected and leaves the stored Day Record and the stored Ledger as they
\* were; the date keeps its one Day Record and that record its punch-in time.
C13_DuplicatePunchInRejected ==
    [][IsSome(dayStore) =>
        /\ cmd' = "in" => (result' = "AlreadyClockedIn" /\ day' = None /\ StoresUnchanged)
        /\ IsSome(dayStore')
        /\ Unwrap(dayStore').work[1].start = Stored.work[1].start
        /\ Unwrap(dayStore').target = Stored.target]_vars

\* C13 witness: `in` was rejected on a day that has ended
C13_Witness ==
    /\ cmd = "in"
    /\ result = "AlreadyClockedIn"
    /\ StoredEnded
    /\ now > Unwrap(Stored.end_time)

\* the commands that need today's Day Record and are modelled
NeedsDay == {"out", "pause", "resume", "summary", "view", "note", "add-summary"}

\* C14: with no Day Record stored for today, out, pause, resume, summary,
\* view, note and add-summary fail with NotFound, create no Day Record and
\* leave the Ledger unchanged; only `in` creates a Day Record.
C14_NotFoundWithoutDay ==
    [][~IsSome(dayStore) =>
        /\ cmd' \in NeedsDay => (result' = "NotFound" /\ day' = None /\ StoresUnchanged)
        /\ IsSome(dayStore') => (cmd' = "in" /\ result' = "Ok")]_vars

\* C14 witness: `out` found no Day Record
C14_Witness ==
    /\ cmd = "out"
    /\ result = "NotFound"
    /\ ~IsSome(dayStore)
    /\ cfgStore.minutes_behind = behind0

\* C15: only `out` closes the stored day: a successful `pause` leaves the
\* stored Day Record OnBreak with end_time unset, a successful `resume`
\* leaves it Working with end_time unset, so that `pause` and `resume` keep
\* succeeding in alternation until an `out`.
C15_OnlyOutCloses ==
    [][StoredOpen =>
        /\ (cmd' = "pause" /\ result' = "Ok") =>
              /\ DayState(Unwrap(dayStore')) = "OnBreak"
              /\ Unwrap(dayStore').end_time = None
              /\ EndCurrentBlockAt(Unwrap(dayStore'), now').ok
        /\ (cmd' = "resume" /\ result' = "Ok") =>
              /\ DayState(Unwrap(dayStore')) = "Working"
              /\ Unwrap(dayStore').end_time = None
              /\ StartBreakAt(Unwrap(dayStore'), now').ok
        /\ HasEnded(Unwrap(dayStore')) => (cmd' = "out" /\ result' = "Ok")]_vars

\* C15 witness: `resume` succeeded after a `pause`, and the stored day is open
C15_Witness ==
    /\ cmd = "resume"
    /\ result = "Ok"
    /\ StoredOpen
    /\ Len(Stored.work) = 2
    /\ HasEnded(Unwrap(day))

\* d with one entry appended to its notes, resp. its summary entries, and
\* nothing else changed
WithNote(d, e) == [d EXCEPT !.notes = Append(d.notes, e)]
WithSummary(d, e) == [d EXCEPT !.summaries = Append(d.summaries, e)]

InOrder(s) ==
    /\ \A i \in 1..Len(s) : IsSome(s[i].end) => s[i].start <= Unwrap(s[i].end)
    /\ \A i \in 2..Len(s) : IsSome(s[i - 1].end) /\ Unwrap(s[i - 1].end) <= s[i].start

Chronological == \A d \in Days : InOrder(Unwrap(d).work) /\ InOrder(Unwrap(d).breaks)

C18_NoPanic ==
    /\ ~panicked
    /\ IsSome(report) => (IsSome(day) /\ HasEnded(Summed))
    /\ cmd \in {"pause", "resume", "summary"} /\ result = "Ok" => IsSome(report)
    /\ cmd = "out" /\ result = "Ok" => (IsSome(report) /\ StoredEnded)

\* C18 witness: `summary` summarised a day that is stored on a break
C18_Witness ==
    /\ cmd = "summary"
    /\ result = "Ok"
    /\ ~panicked
    /\ IsSome(report)
    /\ StoredOpen
    /\ DayState(Stored) = "OnBreak"

Listed == {get_allowed_strings[i] : i \in 1..Len(get_allowed_strings)}
\* the names tried: every subcommand of the enum, every listed name, and two
\* that are neither
TriedNames ==
    Listed \cup {"in", "out", "pause", "resume", "summary", "view", "edit", "note",
                 "edit-config", "view-config", "add-summary", "start", "stop"}
Accepted == {n \in TriedNames : from_string(n, <<>>).kind # "Invalid"}

\* C19: the subcommands handle_invalid_cmd lists for an invalid command are
\* exactly the names from_string maps to a variant other than Invalid.
C19_ListingMatchesParser == result = "InvalidCommand" => Listed = Accepted

====
